---- MODULE Spec2Model ----
(***************************************************************************)
(* Model of the session facade of wonnx (src/wonnx/src/lib.rs): the        *)
(* constructors of Session, the operator-set resolution loop of            *)
(* Session::from_model_with_config, the build / optimize / compile         *)
(* pipeline it drives, and Session::run.                                   *)
(*                                                                         *)
(* The graph builder (ir::Node::from_model), the optimizer                 *)
(* (Optimizer::optimize) and the compiler (GpuModel::from) are modules of  *)
(* the crate whose code is not part of lib.rs.  Their failures are         *)
(* nondeterministic outcomes here; what they compute (output validation,   *)
(* reachability pruning, one dispatch per retained node) follows the       *)
(* specification, sections 4.1 to 4.3.                                     *)
(***************************************************************************)
EXTENDS Integers, Sequences, FiniteSets, TLC

VARIABLES
    model,               \* onnx::ModelProto: [opset_import, graph]
    call,                \* the constructor the caller used and the config it passed
    config,              \* the `config` parameter of from_model_with_config
    pc,                  \* position inside construction / the session's life
    i,                   \* index of the opset_import the loop is at
    onnx_opset_version,  \* Option<i64>, the local of from_model_with_config
    builder_arg,         \* Option<&[String]> handed to ir::Node::from_model
    ir,                  \* Option of the IR graph between the stages
    compiler_arg,        \* Option of the opset version handed to GpuModel::from
    session,             \* Option<Session>: the constructed Session { gpu_model }
    result,              \* what construction returned: Ok or a SessionError
    run_result,          \* what the last Session::run returned
    log                  \* calls made to the collaborators, in order

vars == << model, call, config, pc, i, onnx_opset_version, builder_arg, ir,
           compiler_arg, session, result, run_result, log >>

----------------------------------------------------------------------------
(* Bounds of the model.                                                    *)

MaxImports == 3
MaxRuns == 2
NumNodes == 3

(* Domains and versions an opset import is drawn from. "" is the default   *)
(* (ONNX) domain.                                                          *)
DefaultDomain == ""
Domains == {"", "ai.onnx.ml", "com.microsoft"}
Versions == {11, 12, 13}

----------------------------------------------------------------------------
(* Option<T>: None is the empty sequence, Some(v) the one-element one.     *)

None == << >>
Some(v) == << v >>
IsSome(o) == o /= << >>
Unwrap(o) == o[1]

(* Results: Ok, or a SessionError variant with its fields.                 *)
Pending == [kind |-> "Pending", params |-> << >>]
Ok == [kind |-> "Ok", params |-> << >>]
Err(kind, params) == [kind |-> kind, params |-> params]

DuplicateOnnxOpset(a, b) == Err("DuplicateOnnxOpset", << a, b >>)
UnknownOpset(d) == Err("UnknownOpset", << d >>)
UnknownOnnxOpsetVersion == Err("UnknownOnnxOpsetVersion", << >>)
ModelDeserializationError == Err("ModelDeserializationError", << >>)
ModelReadingError == Err("ModelReadingError", << >>)
IrError == Err("IrError", << >>)
OptimizerError == Err("OptimizerError", << >>)
GpuError == Err("GpuError", << >>)

----------------------------------------------------------------------------
(* The model a session is built from.                                      *)

OpsetImports == [domain : Domains, version : Versions]

RECURSIVE SeqsUpTo(_, _)
SeqsUpTo(S, n) ==
    IF n = 0 THEN {<< >>}
    ELSE LET shorter == SeqsUpTo(S, n - 1)
         IN  shorter \cup {Append(s, x) : s \in {t \in shorter : Len(t) = n - 1}, x \in S}

(* A graph: node k produces tensor k and reads the tensors inputs[k] of    *)
(* earlier nodes, so every graph is acyclic; outputs are the declared      *)
(* graph outputs.                                                          *)
Graphs(n) ==
    {[nodes |-> 1..n, inputs |-> f, outputs |-> o] :
        f \in {g \in [1..n -> SUBSET (1..n)] : \A k \in 1..n : g[k] \subseteq 1..(k - 1)},
        o \in (SUBSET (1..n)) \ {{}}}

(* Two independent one-node branches, both declared outputs.               *)
ExampleGraph == [nodes |-> 1..2, inputs |-> << {}, {} >>, outputs |-> {1, 2}]

(* A tensor name that no node of the graph produces.                       *)
UnknownName(graph) == Cardinality(graph.nodes) + 1

RECURSIVE SortedSeq(_)
SortedSeq(S) ==
    IF S = {} THEN << >>
    ELSE LET m == CHOOSE x \in S : \A y \in S : x <= y
         IN  << m >> \o SortedSeq(S \ {m})

Range(s) == {s[k] : k \in 1..Len(s)}

(* The values a caller can give SessionConfig::outputs for a graph.        *)
OutputsOptions(graph) ==
    {None} \cup {Some(SortedSeq(S)) : S \in SUBSET (graph.nodes \cup {UnknownName(graph)})}

----------------------------------------------------------------------------
(* SessionConfig.                                                          *)

SessionConfig_new == [outputs |-> None]

with_outputs(self, outputs) == [self EXCEPT !.outputs = outputs]

(* config.outputs.as_deref(): Option<Vec<String>> to Option<&[String]>.    *)
as_deref(o) == o

----------------------------------------------------------------------------
(* The collaborators, after the specification.                             *)

(* Graph builder: the tensors that must be computed are the requested      *)
(* names, or every declared output when no restriction is given; a         *)
(* requested name that is not in the graph's index is a build error.       *)
RequiredOutputs(graph, outputs) ==
    IF IsSome(outputs) THEN Range(Unwrap(outputs)) ELSE graph.outputs

BuilderAccepts(graph, outputs) ==
    RequiredOutputs(graph, outputs) \subseteq graph.nodes

Node_from_model(graph, outputs) ==
    [nodes |-> graph.nodes, inputs |-> graph.inputs,
     required |-> RequiredOutputs(graph, outputs)]

(* Optimizer, reachability pruning: walk backwards from the producers of   *)
(* the required outputs and keep what is visited.                          *)
RECURSIVE ReverseReachable(_, _, _)
ReverseReachable(inputs, frontier, seen) ==
    IF frontier = {} THEN seen
    ELSE LET visited == seen \cup frontier
             next == (UNION {inputs[n] : n \in frontier}) \ visited
         IN  ReverseReachable(inputs, next, visited)

optimize(g) ==
    [g EXCEPT !.nodes = ReverseReachable(g.inputs, g.required, {})]

(* Compiler: one dispatch per retained node, under the resolved version.   *)
GpuModel_from(g, version) ==
    [onnx_opset_version |-> version, plan |-> g.nodes, outputs |-> g.required]

(* gpu_model.infer: the outputs the model was compiled to return.          *)
infer(gpu_model) == [kind |-> "Ok", outputs |-> Some(gpu_model.outputs)]
InferError == [kind |-> "GpuError", outputs |-> None]
NoRun == [kind |-> "Pending", outputs |-> None]

----------------------------------------------------------------------------
(* Calls to the collaborators, as they are appended to the log.            *)

(* Each entry names the function called and whether it returned Ok.        *)
Called(fn, ok) == << [fn |-> fn, ok |-> ok] >>

RequestDeviceQueueCalls == Called("request_device_queue", TRUE)
BuildCalls(ok) == Called("Node::from_model", ok)
OptimizeCalls(ok) == Called("optimize", ok)
CompileCalls(ok) == Called("GpuModel::from", ok)
(* Variant: every run compiles the model again before inferring.          *)
RunCallsRecompiling(ok) == Called("GpuModel::from", TRUE) \o Called("infer", ok)

RunCalls(ok) == Called("infer", ok)

Count(s, fn) == Cardinality({k \in 1..Len(s) : s[k].fn = fn})

----------------------------------------------------------------------------
(* Initial states.                                                         *)

InitRest ==
    /\ call = [entry |-> "none", config |-> None]
    /\ config = SessionConfig_new
    /\ pc = "idle"
    /\ i = 1
    /\ onnx_opset_version = None
    /\ builder_arg = None
    /\ ir = None
    /\ compiler_arg = None
    /\ session = None
    /\ result = Pending
    /\ run_result = NoRun
    /\ log = << >>

(* Any list of opset imports, over the example graph.                      *)
Init ==
    /\ model \in [opset_import : SeqsUpTo(OpsetImports, MaxImports), graph : {ExampleGraph}]
    /\ InitRest

(* Any acyclic graph, under short lists of opset imports.                  *)
GraphImports == SeqsUpTo([domain : {DefaultDomain}, version : Versions], 1)
                   \cup {<< [domain |-> DefaultDomain, version |-> 11],
                            [domain |-> DefaultDomain, version |-> 12] >>,
                         << [domain |-> "ai.onnx.ml", version |-> 11] >>}

InitGraph ==
    /\ model \in [opset_import : GraphImports, graph : Graphs(NumNodes)]
    /\ InitRest

----------------------------------------------------------------------------
(* Construction.                                                           *)

Fail(e) ==
    /\ pc' = "failed"
    /\ result' = e

(* Entry into from_model_with_config(model, config).                       *)
Enter(c) ==
    /\ config' = c
    /\ pc' = "request_device_queue"
    /\ result' = Pending

FromModelWithConfig ==
    /\ pc = "idle"
    /\ \E o \in OutputsOptions(model.graph) :
          LET c == with_outputs(SessionConfig_new, o)
          IN  /\ call' = [entry |-> "from_model_with_config", config |-> Some(c)]
              /\ Enter(c)
    /\ UNCHANGED << model, i, onnx_opset_version, builder_arg, ir, compiler_arg,
                    session, run_result, log >>

(* Variant: the default constructors restrict the outputs to none.         *)
FromModelConfigEmptyOutputs == with_outputs(SessionConfig_new, Some(<< >>))

(* The config from_model passes on: &SessionConfig::new().                 *)
FromModelConfig == SessionConfig_new

FromModel ==
    /\ pc = "idle"
    /\ call' = [entry |-> "from_model", config |-> None]
    /\ Enter(FromModelConfig)
    /\ UNCHANGED << model, i, onnx_opset_version, builder_arg, ir, compiler_arg,
                    session, run_result, log >>

(* parse_from_bytes(bytes)? then from_model.                               *)
FromBytes ==
    /\ pc = "idle"
    /\ call' = [entry |-> "from_bytes", config |-> None]
    /\ \E parsed \in BOOLEAN :
          IF parsed THEN Enter(FromModelConfig)
          ELSE Fail(ModelDeserializationError) /\ UNCHANGED config
    /\ UNCHANGED << model, i, onnx_opset_version, builder_arg, ir, compiler_arg,
                    session, run_result, log >>

FromBytesWithConfig ==
    /\ pc = "idle"
    /\ \E o \in OutputsOptions(model.graph), parsed \in BOOLEAN :
          LET c == with_outputs(SessionConfig_new, o)
          IN  /\ call' = [entry |-> "from_bytes_with_config", config |-> Some(c)]
              /\ IF parsed THEN Enter(c)
                 ELSE Fail(ModelDeserializationError) /\ UNCHANGED config
    /\ UNCHANGED << model, i, onnx_opset_version, builder_arg, ir, compiler_arg,
                    session, run_result, log >>

(* std::fs::read(path)? then parse_from_bytes? then from_model.            *)
FromPath ==
    /\ pc = "idle"
    /\ call' = [entry |-> "from_path", config |-> None]
    /\ \E read \in {"io error", "malformed", "model"} :
          IF read = "model" THEN Enter(FromModelConfig)
          ELSE /\ Fail(IF read = "io error" THEN ModelReadingError
                       ELSE ModelDeserializationError)
               /\ UNCHANGED config
    /\ UNCHANGED << model, i, onnx_opset_version, builder_arg, ir, compiler_arg,
                    session, run_result, log >>

FromPathWithConfig ==
    /\ pc = "idle"
    /\ \E o \in OutputsOptions(model.graph), read \in {"io error", "malformed", "model"} :
          LET c == with_outputs(SessionConfig_new, o)
          IN  /\ call' = [entry |-> "from_path_with_config", config |-> Some(c)]
              /\ IF read = "model" THEN Enter(c)
                 ELSE /\ Fail(IF read = "io error" THEN ModelReadingError
                              ELSE ModelDeserializationError)
                      /\ UNCHANGED config
    /\ UNCHANGED << model, i, onnx_opset_version, builder_arg, ir, compiler_arg,
                    session, run_result, log >>

(* let (device, queue) = resource::request_device_queue().await;           *)
(* let mut onnx_opset_version = None;                                      *)
RequestDeviceQueue ==
    /\ pc = "request_device_queue"
    /\ log' = log \o RequestDeviceQueueCalls
    /\ onnx_opset_version' = None
    /\ i' = 1
    /\ pc' = "opset_loop"
    /\ UNCHANGED << model, call, config, builder_arg, ir, compiler_arg, session,
                    result, run_result >>

(* Variants of the loop body, each with one slip: no comparison with the   *)
(* version already seen; other domains skipped instead of rejected;        *)
(* "ai.onnx.ml" taken for the ONNX domain; any second default-domain       *)
(* import rejected; the two versions of the error exchanged.               *)
OpsetImportErrorNoDuplicateCheck(opset_import, version) ==
    IF opset_import.domain = DefaultDomain
    THEN None
    ELSE Some(UnknownOpset(opset_import.domain))

OpsetImportErrorSkipsOtherDomains(opset_import, version) ==
    IF opset_import.domain = DefaultDomain
    THEN IF IsSome(version) /\ opset_import.version /= Unwrap(version)
         THEN Some(DuplicateOnnxOpset(Unwrap(version), opset_import.version))
         ELSE None
    ELSE None

OpsetImportErrorAcceptsMl(opset_import, version) ==
    IF opset_import.domain \in {DefaultDomain, "ai.onnx.ml"}
    THEN IF IsSome(version) /\ opset_import.version /= Unwrap(version)
         THEN Some(DuplicateOnnxOpset(Unwrap(version), opset_import.version))
         ELSE None
    ELSE Some(UnknownOpset(opset_import.domain))

OpsetImportErrorAnyRepeat(opset_import, version) ==
    IF opset_import.domain = DefaultDomain
    THEN IF IsSome(version)
         THEN Some(DuplicateOnnxOpset(Unwrap(version), opset_import.version))
         ELSE None
    ELSE Some(UnknownOpset(opset_import.domain))

OpsetImportErrorSwapped(opset_import, version) ==
    IF opset_import.domain = DefaultDomain
    THEN IF IsSome(version) /\ opset_import.version /= Unwrap(version)
         THEN Some(DuplicateOnnxOpset(opset_import.version, Unwrap(version)))
         ELSE None
    ELSE Some(UnknownOpset(opset_import.domain))

(* One iteration of `for opset_import in model.get_opset_import()`: the    *)
(* error the iteration returns (None when it returns none) and the value   *)
(* of onnx_opset_version after it.                                         *)
OpsetImportError(opset_import, version) ==
    IF opset_import.domain = DefaultDomain
    THEN IF IsSome(version) /\ opset_import.version /= Unwrap(version)
         THEN Some(DuplicateOnnxOpset(Unwrap(version), opset_import.version))
         ELSE None
    ELSE Some(UnknownOpset(opset_import.domain))

OpsetImportVersion(opset_import, version) ==
    IF opset_import.domain = DefaultDomain /\ ~IsSome(version)
    THEN Some(opset_import.version)
    ELSE version

OpsetImportStep ==
    /\ pc = "opset_loop"
    /\ i <= Len(model.opset_import)
    /\ LET opset_import == model.opset_import[i]
           error == OpsetImportError(opset_import, onnx_opset_version)
       IN  IF IsSome(error)
           THEN /\ Fail(Unwrap(error))
                /\ UNCHANGED << i, onnx_opset_version >>
           ELSE /\ onnx_opset_version' = OpsetImportVersion(opset_import, onnx_opset_version)
                /\ i' = i + 1
                /\ UNCHANGED << pc, result >>
    /\ UNCHANGED << model, call, config, builder_arg, ir, compiler_arg, session,
                    run_result, log >>

(* onnx_opset_version.ok_or(SessionError::UnknownOnnxOpsetVersion)?        *)
OpsetResolved ==
    /\ pc = "opset_loop"
    /\ i > Len(model.opset_import)
    /\ IF IsSome(onnx_opset_version)
       THEN pc' = "from_model" /\ UNCHANGED result
       ELSE Fail(UnknownOnnxOpsetVersion)
    /\ UNCHANGED << model, call, config, i, onnx_opset_version, builder_arg, ir,
                    compiler_arg, session, run_result, log >>

(* Variant: the builder is never given the config's restriction.           *)
BuilderOutputsArgUnrestricted == None

(* The argument of ir::Node::from_model(&model, config.outputs.as_deref()) *)
BuilderOutputsArg == as_deref(config.outputs)

(* ir::Node::from_model(&model, config.outputs.as_deref())?                *)
BuildIr ==
    /\ pc = "from_model"
    /\ builder_arg' = Some(BuilderOutputsArg)
    /\ \E built \in BOOLEAN :
          LET ok == built /\ BuilderAccepts(model.graph, BuilderOutputsArg)
          IN  /\ log' = log \o BuildCalls(ok)
              /\ IF ok
                 THEN /\ ir' = Some(Node_from_model(model.graph, BuilderOutputsArg))
                      /\ pc' = "optimize"
                      /\ UNCHANGED result
                 ELSE /\ Fail(IrError)
                      /\ UNCHANGED ir
    /\ UNCHANGED << model, call, config, i, onnx_opset_version, compiler_arg,
                    session, run_result >>

(* Variant: an optimizer error is dropped and the unoptimized graph is     *)
(* compiled.                                                               *)
OptimizeIgnoringFailure ==
    /\ pc = "optimize"
    /\ \E optimized \in BOOLEAN :
          /\ log' = log \o OptimizeCalls(optimized)
          /\ ir' = IF optimized THEN Some(optimize(Unwrap(ir))) ELSE ir
    /\ pc' = "compile"
    /\ UNCHANGED << model, call, config, i, onnx_opset_version, builder_arg,
                    compiler_arg, session, result, run_result >>

(* optimizer.optimize(..)?                                                 *)
Optimize ==
    /\ pc = "optimize"
    /\ \E optimized \in BOOLEAN :
          /\ log' = log \o OptimizeCalls(optimized)
          /\ IF optimized
             THEN /\ ir' = Some(optimize(Unwrap(ir)))
                  /\ pc' = "compile"
                  /\ UNCHANGED result
             ELSE /\ Fail(OptimizerError)
                  /\ UNCHANGED ir
    /\ UNCHANGED << model, call, config, i, onnx_opset_version, builder_arg,
                    compiler_arg, session, run_result >>

(* Variant: the compiler is always given the newest version.               *)
CompilerVersionArgLatest == CHOOSE v \in Versions : \A w \in Versions : w <= v

(* The version argument of GpuModel::from(ir, device, queue, version).     *)
CompilerVersionArg == Unwrap(onnx_opset_version)

(* let gpu_model = GpuModel::from(..)?; Ok(Session { gpu_model })          *)
Compile ==
    /\ pc = "compile"
    /\ compiler_arg' = Some(CompilerVersionArg)
    /\ \E compiled \in BOOLEAN :
          /\ log' = log \o CompileCalls(compiled)
          /\ IF compiled
             THEN /\ session' = Some([gpu_model |-> GpuModel_from(Unwrap(ir), CompilerVersionArg)])
                  /\ pc' = "session"
                  /\ result' = Ok
             ELSE /\ Fail(GpuError)
                  /\ UNCHANGED session
    /\ UNCHANGED << model, call, config, i, onnx_opset_version, builder_arg, ir,
                    run_result >>

(* Ok(self.gpu_model.infer(inputs).await?)                                 *)
RunResult(inferred) ==
    IF inferred THEN infer(Unwrap(session).gpu_model) ELSE InferError

Run ==
    /\ pc = "session"
    /\ Count(log, "infer") < MaxRuns
    /\ \E inferred \in BOOLEAN :
          /\ log' = log \o RunCalls(inferred)
          /\ run_result' = RunResult(inferred)
    /\ UNCHANGED << model, call, config, pc, i, onnx_opset_version, builder_arg,
                    ir, compiler_arg, session, result >>

Next ==
    \/ FromModelWithConfig
    \/ FromModel
    \/ FromBytes
    \/ FromBytesWithConfig
    \/ FromPath
    \/ FromPathWithConfig
    \/ RequestDeviceQueue
    \/ OpsetImportStep
    \/ OpsetResolved
    \/ BuildIr
    \/ Optimize
    \/ Compile
    \/ Run

Spec == Init /\ [][Next]_vars

SpecGraph == InitGraph /\ [][Next]_vars

----------------------------------------------------------------------------
(* Vocabulary of the properties.                                           *)

imports == model.opset_import

IsDefault(k) == imports[k].domain = DefaultDomain
DefaultImports == {k \in 1..Len(imports) : IsDefault(k)}
OtherImports == {k \in 1..Len(imports) : ~IsDefault(k)}

(* Two default-domain imports whose versions differ.                       *)
Conflicting(j, k) ==
    /\ j < k
    /\ IsDefault(j)
    /\ IsDefault(k)
    /\ imports[j].version /= imports[k].version

Min(S) == CHOOSE x \in S : \A y \in S : x <= y

(* from_model_with_config returned an error out of the opset loop or out   *)
(* of the ok_or after it: the device and queue were requested and no       *)
(* stage was called.                                                       *)
ResolutionFailed == pc = "failed" /\ Len(log) = 1

(* from_model_with_config got past operator-set resolution.                *)
PastResolution == Len(log) >= 2 \/ pc \in {"from_model", "optimize", "compile", "session"}

ResolutionDone == ResolutionFailed \/ PastResolution

OpsetErrorKinds == {"DuplicateOnnxOpset", "UnknownOpset", "UnknownOnnxOpsetVersion"}

----------------------------------------------------------------------------
(* C1: a model that declares the default domain twice, first with version  *)
(* a and then with a different version b, never gets a Session: resolution *)
(* ends with DuplicateOnnxOpset(a, b) and no stage is called.              *)
C1_DuplicateOpsetRejected ==
    \A a \in Versions, b \in Versions :
        ( /\ a /= b
          /\ imports = << [domain |-> DefaultDomain, version |-> a],
                          [domain |-> DefaultDomain, version |-> b] >> )
        => /\ session = None
           /\ ~PastResolution
           /\ pc = "opset_loop" => i <= 2
           /\ ResolutionDone => result = DuplicateOnnxOpset(a, b)

C1_Witness ==
    /\ imports = << [domain |-> DefaultDomain, version |-> 11],
                    [domain |-> DefaultDomain, version |-> 12] >>
    /\ ResolutionFailed
    /\ result = DuplicateOnnxOpset(11, 12)

----------------------------------------------------------------------------
(* C2, as stated: every model without a default-domain import fails with   *)
(* UnknownOnnxOpsetVersion, whatever else its import list holds.           *)
C2_AsStated ==
    DefaultImports = {}
        => /\ ~PastResolution
           /\ ResolutionDone => result = UnknownOnnxOpsetVersion

(* C2, amended: a model without a default-domain import fails at           *)
(* operator-set resolution; the error is UnknownOnnxOpsetVersion when the  *)
(* import list is empty and UnknownOpset of the first import's domain      *)
(* otherwise.                                                              *)
C2_NoDefaultImportRejected ==
    DefaultImports = {}
        => /\ session = None
           /\ ~PastResolution
           /\ ResolutionDone =>
                 result = IF imports = << >> THEN UnknownOnnxOpsetVersion
                          ELSE UnknownOpset(imports[1].domain)

C2_Witness ==
    /\ imports = << >>
    /\ ResolutionFailed
    /\ result = UnknownOnnxOpsetVersion

----------------------------------------------------------------------------
(* C3, as stated: a model with an import of a non-default domain d fails   *)
(* with UnknownOpset(d), wherever the import stands and whatever the       *)
(* other imports are.                                                      *)
C3_AsStated ==
    \A k \in OtherImports :
        /\ ~PastResolution
        /\ ResolutionDone => result = UnknownOpset(imports[k].domain)

(* C3, amended: a model with an import of a non-default domain fails at    *)
(* operator-set resolution; the error is UnknownOpset(d) for the first     *)
(* non-default domain d of the list, unless two default-domain imports     *)
(* with different versions stand before it, and then the error is          *)
(* DuplicateOnnxOpset of those.                                            *)
C3_OtherDomainRejected ==
    OtherImports /= {}
        => /\ session = None
           /\ ~PastResolution
           /\ ResolutionDone =>
                 LET k == Min(OtherImports)
                 IN  IF \E j \in 1..(k - 1), m \in 1..(k - 1) : Conflicting(j, m)
                     THEN result.kind = "DuplicateOnnxOpset"
                     ELSE result = UnknownOpset(imports[k].domain)

C3_Witness ==
    /\ Len(imports) = 3
    /\ IsDefault(1)
    /\ IsDefault(2)
    /\ imports[1].version = imports[2].version
    /\ imports[3].domain = "ai.onnx.ml"
    /\ ResolutionFailed
    /\ result = UnknownOpset("ai.onnx.ml")

----------------------------------------------------------------------------
(* C4, as stated: construction gets past operator-set resolution only      *)
(* when the import list holds exactly one default-domain import.           *)
C4_AsStated ==
    PastResolution => Cardinality(DefaultImports) = 1

(* C4, amended: construction gets past operator-set resolution only when   *)
(* the import list holds at least one default-domain import and all its    *)
(* default-domain imports carry one version; a list with none, or with     *)
(* two of different versions, is rejected at load time, and the version    *)
(* handed to the compiler is the version of every default-domain import.   *)
C4_OneVersionInForce ==
    /\ PastResolution =>
          /\ DefaultImports /= {}
          /\ \A j \in DefaultImports, k \in DefaultImports : ~Conflicting(j, k)
    /\ ( DefaultImports = {} \/ \E j \in DefaultImports, k \in DefaultImports : Conflicting(j, k) )
          => /\ session = None
             /\ compiler_arg = None
             /\ ResolutionDone => ResolutionFailed
    /\ IsSome(compiler_arg) =>
          \A k \in DefaultImports : Unwrap(compiler_arg) = imports[k].version
    /\ IsSome(session) =>
          \A k \in DefaultImports :
              Unwrap(session).gpu_model.onnx_opset_version = imports[k].version

C4_Witness ==
    /\ imports = << [domain |-> DefaultDomain, version |-> 12] >>
    /\ IsSome(session)
    /\ compiler_arg = Some(12)
    /\ Unwrap(session).gpu_model.onnx_opset_version = 12

----------------------------------------------------------------------------
(* C5: device/queue acquisition, the graph builder, the optimizer and the  *)
(* compiler are each called at most once, in that order, all before the    *)
(* Session exists; whatever is called once the Session exists is infer.    *)
ConstructionOrder == << "request_device_queue", "Node::from_model", "optimize", "GpuModel::from" >>

C5_PipelineOncePerSession ==
    /\ \A n \in 1..Len(ConstructionOrder) : Count(log, ConstructionOrder[n]) <= 1
    /\ \E n \in 0..Len(ConstructionOrder) :
          /\ n <= Len(log)
          /\ \A k \in 1..n : log[k].fn = ConstructionOrder[k]
          /\ \A k \in (n + 1)..Len(log) : log[k].fn = "infer"
          /\ IsSome(session) => n = Len(ConstructionOrder)
          /\ Len(log) > n => IsSome(session)
    /\ Count(log, "infer") > 0 => pc = "session"

C5_Witness ==
    /\ IsSome(session)
    /\ Count(log, "infer") = MaxRuns
    /\ Len(log) = Len(ConstructionOrder) + MaxRuns

----------------------------------------------------------------------------
(* C6: a stage that fails is the last call construction makes: the error   *)
(* returned is of that stage's kind and there is no Session; a Session     *)
(* exists only when every stage returned Ok; a failed inference returns    *)
(* an error without outputs.                                               *)
StageError(fn) ==
    CASE fn = "Node::from_model" -> IrError
      [] fn = "optimize" -> OptimizerError
      [] fn = "GpuModel::from" -> GpuError
      [] OTHER -> Pending

C6_FailureStopsConstruction ==
    /\ \A k \in 1..Len(log) :
          (~log[k].ok /\ log[k].fn /= "infer")
              => /\ k = Len(log)
                 /\ pc = "failed"
                 /\ session = None
                 /\ result = StageError(log[k].fn)
    /\ ResolutionFailed => result.kind \in OpsetErrorKinds /\ session = None
    /\ pc = "failed" =>
          /\ session = None
          /\ result.kind \notin {"Ok", "Pending"}
          /\ Len(log) >= 2 => ~log[Len(log)].ok
    /\ IsSome(session) <=> result = Ok
    /\ IsSome(session) =>
          /\ Len(log) >= Len(ConstructionOrder)
          /\ \A k \in 1..Len(ConstructionOrder) : log[k].ok /\ log[k].fn = ConstructionOrder[k]
    /\ (log /= << >> /\ log[Len(log)].fn = "infer") =>
          IF log[Len(log)].ok
          THEN run_result = [kind |-> "Ok", outputs |-> Some(Unwrap(session).gpu_model.outputs)]
          ELSE run_result = [kind |-> "GpuError", outputs |-> None]

C6_Witness ==
    /\ pc = "failed"
    /\ result = OptimizerError
    /\ Len(log) = 3
    /\ session = None

----------------------------------------------------------------------------
(* C7: the constructors without a config hand the builder no output        *)
(* restriction, exactly as from_model_with_config does under a config      *)
(* whose outputs is None, and then every declared output is required; the  *)
(* constructors with a config hand the builder the config's outputs.       *)
DefaultEntries == {"from_model", "from_bytes", "from_path"}
ConfigEntries == {"from_model_with_config", "from_bytes_with_config", "from_path_with_config"}

C7_OutputsOptionReachesBuilder ==
    /\ (call.entry \in DefaultEntries /\ log /= << >>) => config = [outputs |-> None]
    /\ (call.entry \in ConfigEntries /\ log /= << >>) => config = Unwrap(call.config)
    /\ IsSome(builder_arg) =>
          /\ call.entry \in DefaultEntries => Unwrap(builder_arg) = None
          /\ call.entry \in ConfigEntries => Unwrap(builder_arg) = Unwrap(call.config).outputs
    /\ (IsSome(builder_arg) /\ Unwrap(builder_arg) = None /\ IsSome(ir))
          => Unwrap(ir).required = model.graph.outputs
    /\ (IsSome(session) /\ Unwrap(builder_arg) = None)
          => Unwrap(session).gpu_model.outputs = model.graph.outputs

C7_Witness ==
    /\ call.entry = "from_bytes"
    /\ IsSome(session)
    /\ builder_arg = Some(None)
    /\ Unwrap(session).gpu_model.outputs = model.graph.outputs

----------------------------------------------------------------------------
(* C8: after optimization the retained nodes are exactly the transitive    *)
(* producers of the required outputs: the least set of nodes that holds    *)
(* the producers of the required tensors and, with a node, the producers   *)
(* of its inputs.  When the required outputs are a subset of the declared  *)
(* ones and the unrestricted plan holds a node that is no producer of the  *)
(* subset, the plan has strictly fewer dispatches than the unrestricted    *)
(* plan.                                                                   *)
ClosedUnderInputs(graph, S) == \A n \in S : graph.inputs[n] \subseteq S

TransitiveProducers(graph, tensors) ==
    {n \in graph.nodes :
        \A S \in SUBSET graph.nodes :
            (tensors \subseteq S /\ ClosedUnderInputs(graph, S)) => n \in S}

Optimized == \E k \in 1..Len(log) : log[k].fn = "optimize" /\ log[k].ok

Requested ==
    IF IsSome(call.config) /\ IsSome(Unwrap(call.config).outputs)
    THEN Range(Unwrap(Unwrap(call.config).outputs))
    ELSE model.graph.outputs

----------------------------------------------------------------------------
(* C9: operator-set resolution succeeds if and only if the import list is  *)
(* not empty, every import is of the default domain and all imports carry  *)
(* the version of the first; that version is the one handed to the         *)
(* compiler.  A repeated default-domain import of the same version is      *)
(* accepted.                                                               *)
ResolutionAccepts ==
    /\ imports /= << >>
    /\ \A k \in 1..Len(imports) :
          IsDefault(k) /\ imports[k].version = imports[1].version

C9_ResolutionSucceedsIff ==
    /\ ResolutionDone => (PastResolution <=> ResolutionAccepts)
    /\ PastResolution => onnx_opset_version = Some(imports[1].version)
    /\ IsSome(compiler_arg) => compiler_arg = Some(imports[1].version)

C9_Witness ==
    /\ imports = << [domain |-> DefaultDomain, version |-> 11],
                    [domain |-> DefaultDomain, version |-> 11] >>
    /\ compiler_arg = Some(11)
    /\ IsSome(session)

----------------------------------------------------------------------------
(* C10: the operator-set error is that of the first offending import in    *)
(* list order, the loop stops at it, and UnknownOnnxOpsetVersion is        *)
(* returned exactly when the import list is empty.                         *)
FirstDefaultBefore(k) == Min({j \in DefaultImports : j < k})

Offending(k) ==
    \/ ~IsDefault(k)
    \/ \E j \in DefaultImports : j < k /\ imports[FirstDefaultBefore(k)].version /= imports[k].version

OffendingImports == {k \in 1..Len(imports) : Offending(k)}

C10_FirstOffendingImportDecides ==
    /\ ResolutionFailed =>
          IF OffendingImports /= {}
          THEN LET k == Min(OffendingImports)
               IN  /\ i = k
                   /\ result = IF IsDefault(k)
                               THEN DuplicateOnnxOpset(imports[FirstDefaultBefore(k)].version,
                                                       imports[k].version)
                               ELSE UnknownOpset(imports[k].domain)
          ELSE result = UnknownOnnxOpsetVersion
    /\ pc = "opset_loop" => \A k \in OffendingImports : i <= k
    /\ PastResolution => OffendingImports = {}
    /\ ResolutionDone => (result = UnknownOnnxOpsetVersion <=> imports = << >>)

C10_Witness ==
    /\ Len(imports) = 3
    /\ IsDefault(1) /\ IsDefault(2) /\ ~IsDefault(3)
    /\ imports[1].version = 11
    /\ imports[2].version = 13
    /\ ResolutionFailed
    /\ i = 2
    /\ result = DuplicateOnnxOpset(11, 13)

====
